---- MODULE Spec2Model ----
(***************************************************************************)
(* HA Live Config: the shared configuration document (an API key and a     *)
(* list of profiles) held in hass.data[DOMAIN]["data"], the Store it is    *)
(* saved to, and the five service handlers registered by async_setup.      *)
(*                                                                         *)
(* Python values are modelled as follows.  A dict is a function whose      *)
(* DOMAIN is the set of its keys.  A profile name is a sequence of         *)
(* characters, so that str.lower() is computed character by character.     *)
(* Ids, API keys and user names are strings; None is the string "None",    *)
(* which no caller-supplied string of the model equals.                    *)
(***************************************************************************)
EXTENDS Integers, Sequences, FiniteSets, Bags, TLC

VARIABLES
    data,     \* hass.data[DOMAIN]["data"]: the in-memory document
    stored,   \* what the Store last wrote: <<>> before the first save, else <<doc>>
    call,     \* the service call being dispatched, or Idle
    ret,      \* outcome of the last handled call (response, error, log line, saved?)
    uuids,    \* how many ids uuid.uuid4() has produced so far
    tasks,    \* the handlers suspended at an await, as a bag
    deleted   \* history: the ids delete_profile has been called with

vars == <<data, stored, call, ret, uuids, tasks, deleted>>

\* Number of ids uuid.uuid4() may produce in one run of the model.
MaxUuid == 2

\* Number of handlers that may be suspended at an await at the same time.
MaxTasks == 2

\* Number of ids uuid.uuid4() may produce in one run of the interleaved model.
MaxAsyncUuid == 1

None == "None"

PROFILE_SCHEMA_VERSION == "PROFILE_SCHEMA_VERSION"

EmptyDict == [k \in {} |-> None]

\* dict.get(k, default)
Get(d, k, default) == IF k \in DOMAIN d THEN d[k] ELSE default

\* d[k] = v
Put(d, k, v) == [x \in (DOMAIN d) \cup {k} |-> IF x = k THEN v ELSE d[x]]

\* Python truthiness of an optional string: None and "" are falsy.
Truthy(s) == s # None /\ s # ""

(***************************************************************************)
(* The values the environment supplies.                                    *)
(***************************************************************************)
\* Profile names callers use: two that differ only in case, and two others.
Names == { <<"A", "l">>, <<"a", "l">>, <<"b", "o">>, <<"c", "y">> }

EmptyName == <<>>

\* Ids callers make up themselves.
CallerIds == { "c1" }

\* The strings uuid.uuid4() produces, in the order it produces them.  A
\* uuid4 is random: the model takes it to differ from every id produced
\* before and from every id a caller made up.
UuidPool == << "uuid-1", "uuid-2", "uuid-3", "uuid-4", "uuid-5", "uuid-6" >>

\* The ids of the stored profiles: callers see them in the responses of
\* upsert_profile and get_config and send them back.
StoredIds == { data.profiles[i]["id"] : i \in 1..Len(data.profiles) }

ApiKeys == { "AIzaSyExample", "not-a-gemini-key" }

\* hass.auth: the user ids that resolve to a user, with the user's name.
AuthUsers == [u \in {"user-alice"} |-> [name |-> "Alice"]]

\* call.context.user_id: no user, a known user, a user that no longer exists.
UserIds == { None, "user-alice", "user-gone" }

\* dt_util.utcnow()
Instants == { "dt1" }

\* datetime.isoformat()
IsoFormat(t) == CASE t = "dt1" -> "2026-01-01T00:00:00+00:00"

(***************************************************************************)
(* str.lower(), and equality of names ignoring case.                       *)
(***************************************************************************)
LowerChar(c) ==
    CASE c = "A" -> "a"
      [] c = "B" -> "b"
      [] c = "C" -> "c"
      [] c = "L" -> "l"
      [] c = "O" -> "o"
      [] c = "Y" -> "y"
      [] OTHER -> c

Lower(s) == [i \in 1..Len(s) |-> LowerChar(s[i])]

\* The characters of an API key string.
Chars(key) ==
    CASE key = "AIzaSyExample" -> << "A", "I", "z", "a", "S", "y" >>
      [] key = "not-a-gemini-key" -> << "n", "o", "t", "-", "a" >>
      [] OTHER -> << >>

\* str.startswith(prefix), on character sequences
StartsWith(s, prefix) ==
    /\ Len(s) >= Len(prefix)
    /\ SubSeq(s, 1, Len(prefix)) = prefix

(***************************************************************************)
(* Service calls.  call.data is a dict; a key the caller leaves out is     *)
(* not in its DOMAIN.                                                      *)
(***************************************************************************)
Idle == [op |-> "idle"]

NoRet == [op |-> "none"]

\* Optional dict entry: the key k with each value of vals, or no key at all.
Field(k, vals) == { EmptyDict } \cup { (k :> v) : v \in vals }

\* What a caller adds beyond id and name: a payload field, alone or together
\* with values of its own for the three audit fields.
PlainBody == [voice |-> "Puck"]

ForgedBody ==
    [voice |-> "Puck", last_modified |-> "1999-12-31", schema_version |-> "0",
     modified_by |-> "mallory"]

\* The body of the profile and the user of the call context, as sent together.
BodyAndUser ==
    { <<PlainBody, "user-alice">>, <<ForgedBody, None>>, <<ForgedBody, "user-gone">> }

\* The ids callers send: an id of their own, the id of a stored profile, or the
\* empty string.  An id of their own stands for every id that is not stored.
IdInputs == CallerIds \cup StoredIds \cup {""}

\* Calls whose profile has a usable name.
NamedUpsertCalls ==
    { [op |-> "upsert_profile",
       data |-> ("profile" :> ((("name" :> n) @@ i) @@ bu[1])),
       user_id |-> bu[2]] :
        n \in Names, i \in Field("id", IdInputs), bu \in BodyAndUser }

\* Calls whose profile has no name or an empty one, and calls with no profile.
NamelessUpsertCalls ==
    { [op |-> "upsert_profile", data |-> d, user_id |-> "user-alice"] :
        d \in Field("profile",
                    { (n @@ i) @@ PlainBody : n \in Field("name", {EmptyName}),
                                              i \in Field("id", IdInputs) }
                    \cup {EmptyDict}) }

UpsertCalls == NamedUpsertCalls \cup NamelessUpsertCalls

DeleteCalls ==
    { [op |-> "delete_profile", data |-> d, user_id |-> None] :
        d \in Field("profile_id", CallerIds \cup StoredIds) }

SetKeyCalls ==
    { [op |-> "set_gemini_key", data |-> d, user_id |-> None] :
        d \in Field("api_key", ApiKeys \cup {""}) }

GetConfigCalls == { [op |-> "get_config", data |-> EmptyDict, user_id |-> None] }

CheckNameCalls ==
    { [op |-> "check_profile_name", data |-> n @@ e, user_id |-> None] :
        n \in Field("name", Names \cup {EmptyName}),
        e \in Field("exclude_id", IdInputs) }

(***************************************************************************)
(* The pieces of handle_upsert_profile, in the order the handler runs      *)
(* them.                                                                   *)
(***************************************************************************)
\* profile = dict(call.data.get("profile", {}))
RequestProfile(c) == Get(c.data, "profile", EmptyDict)

\* A validation that only asks for the key, and so accepts the empty name.
HasNameKeyOnly(profile) == "name" \in DOMAIN profile

\* the negation of: not profile.get("name")
HasName(profile) == "name" \in DOMAIN profile /\ profile["name"] # EmptyName

\* A collision check that compares the names as written, without lower().
NameMatchesCaseSensitive(profiles, profile) ==
    { i \in 1..Len(profiles) :
        /\ profiles[i]["name"] = profile["name"]
        /\ profiles[i]["id"] # Get(profile, "id", None) }

\* A collision check that is skipped when the request carries no id.
NameMatchesOnlyWithId(profiles, profile) ==
    { i \in 1..Len(profiles) :
        /\ Lower(profiles[i]["name"]) = Lower(profile["name"])
        /\ "id" \in DOMAIN profile
        /\ profiles[i]["id"] # profile["id"] }

\* The generator of existing_with_name: the positions of the stored profiles with
\* the same lowered name and a different id.
NameMatches(profiles, profile) ==
    { i \in 1..Len(profiles) :
        /\ Lower(profiles[i]["name"]) = Lower(profile["name"])
        /\ profiles[i]["id"] # Get(profile, "id", None) }

\* next(..., None): the first such position, 0 for None.
ExistingWithName(profiles, profile) ==
    LET m == NameMatches(profiles, profile)
    IN  IF m = {} THEN 0 ELSE CHOOSE i \in m : \A j \in m : i <= j

\* The ValueError the validation raises, None when it raises nothing.
UpsertError(profiles, profile) ==
    IF ~HasName(profile) THEN "Profile must have a name"
    ELSE IF ExistingWithName(profiles, profile) # 0
         THEN "A profile named '...' already exists"
         ELSE None

\* if not profile_id: profile["id"] = str(uuid.uuid4())
GeneratesId(profile) == ~Truthy(Get(profile, "id", None))

\* An id assignment that generates only when the key is missing, not when the
\* id is the empty string.
AssignIdOnlyWhenAbsent(profile, uuid) ==
    IF "id" \notin DOMAIN profile THEN Put(profile, "id", uuid) ELSE profile

AssignId(profile, uuid) ==
    IF GeneratesId(profile) THEN Put(profile, "id", uuid) ELSE profile

\* profile["modified_by"]: the user's name when the context has a user id that
\* hass.auth.async_get_user resolves, else None.
ModifiedBy(user_id) ==
    IF Truthy(user_id)
    THEN IF user_id \in DOMAIN AuthUsers THEN AuthUsers[user_id].name ELSE None
    ELSE None

\* A stamping that keeps the audit fields the caller sent (dict.setdefault).
StampKeepingCaller(profile, now, user_id) ==
    LET keep(d, k, v) == IF k \in DOMAIN d THEN d ELSE Put(d, k, v)
    IN  keep(keep(keep(profile, "last_modified", IsoFormat(now)),
                  "schema_version", PROFILE_SCHEMA_VERSION),
             "modified_by", ModifiedBy(user_id))

\* The metadata the handler writes into the profile.
Stamp(profile, now, user_id) ==
    Put(Put(Put(profile, "last_modified", IsoFormat(now)),
            "schema_version", PROFILE_SCHEMA_VERSION),
        "modified_by", ModifiedBy(user_id))

\* A search that never finds the stored profile, so that every upsert appends.
ExistingIdxNeverFound(profiles, profile) == 0

\* existing_idx: the first position holding the profile's id, 0 for None.
ExistingIdx(profiles, profile) ==
    LET m == { i \in 1..Len(profiles) : profiles[i]["id"] = profile["id"] }
    IN  IF m = {} THEN 0 ELSE CHOOSE i \in m : \A j \in m : i <= j

\* An update that removes the old entry and appends the new one.
UpsertMovingToEnd(profiles, profile) ==
    Append(SelectSeq(profiles, LAMBDA p : p["id"] # profile["id"]), profile)

\* profiles[existing_idx] = profile, or profiles.append(profile)
Upsert(profiles, profile) ==
    LET idx == ExistingIdx(profiles, profile)
    IN  IF idx # 0 THEN [profiles EXCEPT ![idx] = profile]
        ELSE Append(profiles, profile)

(***************************************************************************)
(* The pieces of the other handlers.                                       *)
(***************************************************************************)
\* A deletion that cuts the list at the first profile with the id.
WithoutIdTruncating(profiles, profile_id) ==
    LET m == { i \in 1..Len(profiles) : profiles[i]["id"] = profile_id }
    IN  IF m = {} THEN profiles
        ELSE SubSeq(profiles, 1, (CHOOSE i \in m : \A j \in m : i <= j) - 1)

\* [p for p in profiles if p["id"] != profile_id]
WithoutId(profiles, profile_id) ==
    SelectSeq(profiles, LAMBDA p : p["id"] # profile_id)

\* A normalisation that also drops a key without the Gemini prefix.
NormalizeKeyDroppingInvalid(api_key) ==
    IF api_key = "" \/ (api_key # None
                        /\ ~StartsWith(Chars(api_key), << "A", "I", "z", "a" >>))
    THEN None ELSE api_key

\* if api_key == "": api_key = None
NormalizeKey(api_key) == IF api_key = "" THEN None ELSE api_key

\* The condition of the "doesn't look like a valid Gemini key" warning.
KeyLooksWrong(api_key) ==
    /\ api_key # None
    /\ api_key # ""
    /\ ~StartsWith(Chars(api_key), << "A", "I", "z", "a" >>)

\* A name check that does not exclude the profile being edited.
NameTakenIgnoringExclude(profiles, name, exclude_id) ==
    \E i \in 1..Len(profiles) : Lower(profiles[i]["name"]) = Lower(name)

\* name_taken of handle_check_profile_name
NameTaken(profiles, name, exclude_id) ==
    \E i \in 1..Len(profiles) :
        /\ Lower(profiles[i]["name"]) = Lower(name)
        /\ profiles[i]["id"] # exclude_id

\* A response that withholds the API key.
ConfigOfMaskedKey(d) == [gemini_api_key |-> None, profiles |-> d.profiles]

\* The response of get_config.
ConfigOf(d) == [gemini_api_key |-> d.gemini_api_key, profiles |-> d.profiles]

Ret(op, status, value, saved, log) ==
    [op |-> op, status |-> status, value |-> value, saved |-> saved, log |-> log]

(***************************************************************************)
(* Initial state: async_setup found nothing in storage.                    *)
(***************************************************************************)
Init ==
    /\ data = [schema_version |-> PROFILE_SCHEMA_VERSION,
               gemini_api_key |-> None,
               profiles |-> << >>]
    /\ stored = << >>
    /\ call = Idle
    /\ ret = NoRet
    /\ uuids = 0
    /\ tasks = EmptyBag
    /\ deleted = {}

\* Would handling c draw a uuid4?
DrawsUuid(c) ==
    /\ c.op = "upsert_profile"
    /\ UpsertError(data.profiles, RequestProfile(c)) = None
    /\ GeneratesId(RequestProfile(c))

\* A client calls a service; the handlers run one call at a time, and the
\* client has the outcome of its previous call before it makes the next.
Invoke ==
    /\ call = Idle
    /\ ret = NoRet
    /\ \E c \in UpsertCalls \cup DeleteCalls \cup SetKeyCalls
                \cup GetConfigCalls \cup CheckNameCalls :
        /\ DrawsUuid(c) => uuids < MaxUuid
        /\ call' = c
    /\ UNCHANGED <<data, stored, ret, uuids, tasks, deleted>>

handle_get_config ==
    /\ call.op = "get_config"
    /\ ret' = Ret("get_config", "ok", ConfigOf(data), FALSE, << >>)
    /\ call' = Idle
    /\ UNCHANGED <<data, stored, uuids, tasks, deleted>>

handle_set_gemini_key ==
    /\ call.op = "set_gemini_key"
    /\ LET given == Get(call.data, "api_key", None)
           api_key == NormalizeKey(given)
           warning == IF KeyLooksWrong(given)
                      THEN << "API key doesn't look like a valid Gemini key" >>
                      ELSE << >>
           info == IF Truthy(api_key) THEN "Gemini API key set"
                   ELSE "Gemini API key cleared"
       IN  /\ data' = [data EXCEPT !.gemini_api_key = api_key]
           /\ stored' = << data' >>
           /\ ret' = Ret("set_gemini_key", "ok", None, TRUE, Append(warning, info))
    /\ call' = Idle
    /\ UNCHANGED <<uuids, tasks, deleted>>

handle_upsert_profile ==
    /\ call.op = "upsert_profile"
    /\ LET submitted == RequestProfile(call)
           error == UpsertError(data.profiles, submitted)
       IN  IF error # None
           THEN /\ ret' = Ret("upsert_profile", "error", error, FALSE, << >>)
                /\ UNCHANGED <<data, stored, uuids>>
           ELSE \E now \in Instants :
                LET profile == Stamp(AssignId(submitted, UuidPool[uuids + 1]),
                                     now, call.user_id)
                    updated == ExistingIdx(data.profiles, profile) # 0
                IN  /\ uuids' = IF GeneratesId(submitted) THEN uuids + 1 ELSE uuids
                    /\ data' = [data EXCEPT !.profiles = Upsert(@, profile)]
                    /\ stored' = << data' >>
                    /\ ret' = Ret("upsert_profile", "ok", [id |-> profile["id"]], TRUE,
                                  << IF updated THEN "Updated profile"
                                     ELSE "Created profile" >>)
    /\ call' = Idle
    /\ UNCHANGED <<tasks, deleted>>

handle_delete_profile ==
    /\ call.op = "delete_profile"
    /\ LET profile_id == Get(call.data, "profile_id", None)
           original_count == Len(data.profiles)
       IN  /\ data' = [data EXCEPT !.profiles = WithoutId(@, profile_id)]
           /\ IF Len(data'.profiles) < original_count
              THEN /\ stored' = << data' >>
                   /\ ret' = Ret("delete_profile", "ok", None, TRUE,
                                 << "Deleted profile" >>)
              ELSE /\ stored' = stored
                   /\ ret' = Ret("delete_profile", "ok", None, FALSE,
                                 << "Profile not found for deletion" >>)
    /\ call' = Idle
    /\ UNCHANGED <<uuids, tasks, deleted>>

handle_check_profile_name ==
    /\ call.op = "check_profile_name"
    /\ LET name == Get(call.data, "name", EmptyName)
           exclude_id == Get(call.data, "exclude_id", None)
           name_taken == NameTaken(data.profiles, name, exclude_id)
       IN  ret' = Ret("check_profile_name", "ok", [available |-> ~name_taken],
                      FALSE, << >>)
    /\ call' = Idle
    /\ UNCHANGED <<data, stored, uuids, tasks, deleted>>

\* The outcome of the handled call (response or exception) reaches the caller.
Deliver ==
    /\ call = Idle
    /\ ret # NoRet
    /\ ret' = NoRet
    /\ UNCHANGED <<data, stored, call, uuids, tasks, deleted>>

Next ==
    \/ Invoke
    \/ Deliver
    \/ handle_get_config
    \/ handle_set_gemini_key
    \/ handle_upsert_profile
    \/ handle_delete_profile
    \/ handle_check_profile_name

Spec == Init /\ [][Next]_vars

(***************************************************************************)
(* The handlers as coroutines on the event loop.  A handler runs without   *)
(* interruption from one await to the next; while it is suspended, other   *)
(* service calls start, resume and finish.  The awaits are the user lookup *)
(* (line 103, reached only when the context has a user id) and _save       *)
(* (lines 67, 121, 138).                                                   *)
(*                                                                         *)
(* handle_upsert_profile keeps, in its local variable profiles, the list   *)
(* object that was the document's profile list when it started (line 76);  *)
(* handle_delete_profile builds a new list and makes it the document's     *)
(* profile list (line 133).  An upsert suspended meanwhile is orphaned: it *)
(* resumes on the old list, which the document no longer refers to.        *)
(*                                                                         *)
(* Store.async_save is given the document itself, not a copy: what it      *)
(* writes is the document as it is when the write happens.                 *)
(*                                                                         *)
(* A handler's return value is the value of its task when its save is      *)
(* done; ret, the outcome of the last call of Spec, is not used here.      *)
(***************************************************************************)
\* The calls made while other handlers are suspended.  Every upsert carries
\* a user id, so that every upsert waits for the user lookup; an upsert
\* without one behaves as an upsert that is resumed at once.
AsyncNames == { <<"A", "l">>, <<"b", "o">> }

AsyncUsers == { "user-alice" }

AsyncUpsertCalls ==
    { [op |-> "upsert_profile",
       data |-> ("profile" :> ((n @@ i) @@ PlainBody)),
       user_id |-> u] :
        n \in Field("name", AsyncNames \cup {EmptyName}),
        i \in Field("id", IdInputs),
        u \in AsyncUsers }

AsyncDeleteCalls ==
    { [op |-> "delete_profile", data |-> ("profile_id" :> i), user_id |-> None] :
        i \in CallerIds \cup StoredIds }

AsyncSetKeyCalls ==
    { [op |-> "set_gemini_key", data |-> d, user_id |-> None] :
        d \in Field("api_key", {"AIzaSyExample"}) }

\* A suspended handler: where it waits, and the locals it still needs.
Task(op, pc, profile, now, user_id, orphaned, value) ==
    [op |-> op, pc |-> pc, profile |-> profile, now |-> now, user_id |-> user_id,
     orphaned |-> orphaned, value |-> value]

\* A handler that has called _save and waits for it.
SavingTask(op, value) == Task(op, "save", EmptyDict, None, None, FALSE, value)

\* The suspended handlers are a bag: the event loop may run them in any order.
Suspend(waiting, t) == waiting (+) SetToBag({t})

Finish(waiting, t) == waiting (-) SetToBag({t})

\* The suspended upserts lose the document's list when it is replaced.
Orphan(t) == IF t.pc = "get_user" THEN [t EXCEPT !.orphaned = TRUE] ELSE t

Orphaned(waiting) ==
    LET count(u) == (IF BagIn(u, waiting) THEN CopiesIn(u, waiting) ELSE 0)
                  + (IF u.pc = "get_user"
                        /\ BagIn([u EXCEPT !.orphaned = FALSE], waiting)
                     THEN CopiesIn([u EXCEPT !.orphaned = FALSE], waiting) ELSE 0)
    IN  [u \in { Orphan(t) : t \in BagToSet(waiting) } |-> count(u)]

\* The list the upsert mutates: the document's list, unless the handler is
\* orphaned, and then a list nobody else refers to.
UpsertInto(d, profile, orphaned) ==
    IF orphaned THEN d ELSE [d EXCEPT !.profiles = Upsert(@, profile)]

\* A deletion that leaves the saving to the next handler.
DeleteSavesNever(original_count, new_count) == FALSE

\* if len(...) < original_count: await _save()
DeleteSaves(original_count, new_count) == new_count < original_count

\* handle_upsert_profile, from its start to its first await (or to its
\* exception).
start_upsert_profile ==
    /\ BagCardinality(tasks) < MaxTasks
    /\ \E c \in AsyncUpsertCalls, now \in Instants :
        LET submitted == RequestProfile(c)
            error == UpsertError(data.profiles, submitted)
            profile == AssignId(submitted, UuidPool[uuids + 1])
        IN  IF error # None
            THEN UNCHANGED <<data, uuids, tasks>>
            ELSE /\ GeneratesId(submitted) => uuids < MaxAsyncUuid
                 /\ uuids' = IF GeneratesId(submitted) THEN uuids + 1 ELSE uuids
                 /\ IF Truthy(c.user_id)
                    THEN /\ tasks' = Suspend(tasks,
                                Task("upsert_profile", "get_user", profile, now,
                                     c.user_id, FALSE, None))
                         /\ data' = data
                    ELSE LET stamped == Stamp(profile, now, c.user_id)
                         IN  /\ data' = UpsertInto(data, stamped, FALSE)
                             /\ tasks' = Suspend(tasks,
                                    SavingTask("upsert_profile", stamped["id"]))
    /\ UNCHANGED <<stored, call, ret, deleted>>

\* handle_upsert_profile, from the return of the user lookup to await _save().
resume_upsert_profile ==
    \E t \in BagToSet(tasks) :
        /\ t.pc = "get_user"
        /\ LET stamped == Stamp(t.profile, t.now, t.user_id)
           IN  /\ data' = UpsertInto(data, stamped, t.orphaned)
               /\ tasks' = Suspend(Finish(tasks, t),
                                   SavingTask("upsert_profile", stamped["id"]))
        /\ UNCHANGED <<stored, call, ret, uuids, deleted>>

\* handle_delete_profile, from its start to await _save(), or to its end when
\* nothing was removed.
start_delete_profile ==
    /\ BagCardinality(tasks) < MaxTasks
    /\ \E c \in AsyncDeleteCalls :
        LET profile_id == Get(c.data, "profile_id", None)
            original_count == Len(data.profiles)
            waiting == Orphaned(tasks)
        IN  /\ data' = [data EXCEPT !.profiles = WithoutId(@, profile_id)]
            /\ deleted' = deleted \cup {profile_id}
            /\ IF DeleteSaves(original_count, Len(data'.profiles))
               THEN tasks' = Suspend(waiting, SavingTask("delete_profile", None))
               ELSE tasks' = waiting
    /\ UNCHANGED <<stored, call, ret, uuids>>

\* handle_set_gemini_key, from its start to await _save().
start_set_gemini_key ==
    /\ BagCardinality(tasks) < MaxTasks
    /\ \E c \in AsyncSetKeyCalls :
        /\ data' = [data EXCEPT
                      !.gemini_api_key = NormalizeKey(Get(c.data, "api_key", None))]
        /\ tasks' = Suspend(tasks, SavingTask("set_gemini_key", None))
    /\ UNCHANGED <<stored, call, ret, uuids, deleted>>

\* The Store has written the document; the handler that awaited it returns.
save_done ==
    \E t \in BagToSet(tasks) :
        /\ t.pc = "save"
        /\ stored' = << data >>
        /\ tasks' = Finish(tasks, t)
        /\ UNCHANGED <<data, call, ret, uuids, deleted>>

\* get_config and check_profile_name are callbacks without an await: they run
\* to their end when called and change nothing, so they add no interleaving.
NextAsync ==
    \/ start_upsert_profile
    \/ resume_upsert_profile
    \/ start_delete_profile
    \/ start_set_gemini_key
    \/ save_done

SpecAsync == Init /\ [][NextAsync]_vars

(***************************************************************************)
(* Properties.                                                             *)
(*                                                                         *)
(* Equality of names ignoring case is stated on its own, letter by letter, *)
(* not through Lower.                                                      *)
(***************************************************************************)
CasePairs ==
    { {"A", "a"}, {"B", "b"}, {"C", "c"}, {"L", "l"}, {"O", "o"}, {"Y", "y"} }

SameLetter(c, d) == c = d \/ {c, d} \in CasePairs

EqualIgnoringCase(s, t) ==
    /\ Len(s) = Len(t)
    /\ \A i \in 1..Len(s) : SameLetter(s[i], t[i])

NameCollisionError == "A profile named '...' already exists"

MissingNameError == "Profile must have a name"

\* The handled call left the document and the storage alone and did not save.
NothingWritten == data' = data /\ stored' = stored /\ ~ret'.saved

\* C1: with the handlers run one call at a time from the empty document, no two
\* stored profiles have names that are equal ignoring case.
C1_NamesUniqueIgnoringCase ==
    \A i, j \in 1..Len(data.profiles) :
        i # j => ~EqualIgnoringCase(data.profiles[i]["name"], data.profiles[j]["name"])

\* C1 witness: three profiles are stored, one of them written with capitals, and
\* an upsert has just been refused for its name.
C1_Witness ==
    /\ Len(data.profiles) = 3
    /\ \E i \in 1..3 : data.profiles[i]["name"] = << "A", "l" >>
    /\ ret.op = "upsert_profile"
    /\ ret.status = "error"
    /\ ret.value = NameCollisionError

\* The request's name equals, ignoring case, the name of a stored profile whose
\* id is not the request's id (a request without id has the id None).
C2_Collides ==
    /\ call.op = "upsert_profile"
    /\ "profile" \in DOMAIN call.data
    /\ "name" \in DOMAIN call.data["profile"]
    /\ \E i \in 1..Len(data.profiles) :
        /\ EqualIgnoringCase(data.profiles[i]["name"], call.data["profile"]["name"])
        /\ \/ "id" \notin DOMAIN call.data["profile"]
           \/ data.profiles[i]["id"] # call.data["profile"]["id"]

\* C2: an upsert_profile whose name collides, ignoring case, with a stored profile
\* of a different id (or with any stored profile when the request has no id) ends
\* in an error, leaves the document unchanged and does not save.
C2_CollisionRejected ==
    [][ C2_Collides =>
          /\ ret'.status = "error"
          /\ ret'.value = NameCollisionError
          /\ NothingWritten ]_vars

\* C2 witness: an upsert was refused for its name while the document, already
\* saved with a key and two profiles, is still what the storage holds.
C2_Witness ==
    /\ ret.op = "upsert_profile"
    /\ ret.status = "error"
    /\ ret.value = NameCollisionError
    /\ ~ret.saved
    /\ Len(data.profiles) = 2
    /\ data.gemini_api_key # None
    /\ stored = << data >>

\* The request has no profile, or its profile has no name or the empty name.
C3_Nameless ==
    /\ call.op = "upsert_profile"
    /\ \/ "profile" \notin DOMAIN call.data
       \/ "name" \notin DOMAIN call.data["profile"]
       \/ call.data["profile"]["name"] = << >>

\* C3: an upsert_profile without a profile, without a name or with the empty name
\* ends in an error, leaves the document unchanged and does not save.
C3_NamelessRejected ==
    [][ C3_Nameless =>
          /\ ret'.status = "error"
          /\ ret'.value = MissingNameError
          /\ NothingWritten ]_vars

\* C3 witness: an upsert was refused for its missing name, with profiles stored.
C3_Witness ==
    /\ ret.op = "upsert_profile"
    /\ ret.status = "error"
    /\ ret.value = MissingNameError
    /\ ~ret.saved
    /\ Len(data.profiles) >= 1
    /\ stored = << data >>

AuditKeys == { "last_modified", "schema_version", "modified_by" }

\* Profile q is the submitted profile p: it has p's keys and the audit keys, and
\* p's value under every key that is neither an audit key nor in the set except.
IsSubmitted(q, p, except) ==
    /\ DOMAIN q = DOMAIN p \cup AuditKeys \cup except
    /\ \A k \in DOMAIN p \ (AuditKeys \cup except) : q[k] = p[k]

\* The request has a profile with a non-empty name that no stored profile has
\* (ignoring case), and no id or the empty id.
C4_NewProfile ==
    /\ call.op = "upsert_profile"
    /\ "profile" \in DOMAIN call.data
    /\ "name" \in DOMAIN call.data["profile"]
    /\ call.data["profile"]["name"] # << >>
    /\ \A i \in 1..Len(data.profiles) :
        ~EqualIgnoringCase(data.profiles[i]["name"], call.data["profile"]["name"])
    /\ \/ "id" \notin DOMAIN call.data["profile"]
       \/ call.data["profile"]["id"] = ""

\* C4: an upsert_profile with a name no stored profile has and without id (absent
\* or empty) appends one profile at the end, under an id generated for it that no
\* stored profile has, leaves the other profiles and the API key unchanged, saves
\* and returns the new id.
C4_CreateAppends ==
    [][ C4_NewProfile =>
          LET n == Len(data.profiles)
              new == data'.profiles[n + 1]
          IN  /\ Len(data'.profiles) = n + 1
              /\ SubSeq(data'.profiles, 1, n) = data.profiles
              /\ IsSubmitted(new, call.data["profile"], {"id"})
              /\ uuids' = uuids + 1
              /\ new["id"] = UuidPool[uuids']
              /\ new["id"] \notin StoredIds \cup {"", None}
              /\ data'.gemini_api_key = data.gemini_api_key
              /\ ret'.saved
              /\ stored' = << data' >>
              /\ ret'.status = "ok"
              /\ ret'.value = [id |-> new["id"]] ]_vars

\* C4 witness: a third profile was just created, under the id generated last,
\* behind two others, with an API key set.
C4_Witness ==
    /\ ret.op = "upsert_profile"
    /\ ret.status = "ok"
    /\ ret.log = << "Created profile" >>
    /\ Len(data.profiles) = 3
    /\ uuids >= 1
    /\ data.profiles[3]["id"] = UuidPool[uuids]
    /\ ret.value = [id |-> UuidPool[uuids]]
    /\ data.gemini_api_key # None

\* The request carries the id of a stored profile and a non-empty name that no
\* profile with another id has (ignoring case).
C5_UpdateOf(k) ==
    /\ call.op = "upsert_profile"
    /\ "profile" \in DOMAIN call.data
    /\ "name" \in DOMAIN call.data["profile"]
    /\ call.data["profile"]["name"] # << >>
    /\ "id" \in DOMAIN call.data["profile"]
    /\ data.profiles[k]["id"] = call.data["profile"]["id"]
    /\ \A i \in 1..Len(data.profiles) :
        data.profiles[i]["id"] # call.data["profile"]["id"] =>
            ~EqualIgnoringCase(data.profiles[i]["name"], call.data["profile"]["name"])

\* C5: an upsert_profile with the id of a stored profile and a name no other
\* profile has (its own name in any case included) puts the submitted profile at
\* that profile's position, keeps the number of profiles and every other profile,
\* and returns the same id.
C5_UpdateReplacesInPlace ==
    [][ \A k \in 1..Len(data.profiles) :
          C5_UpdateOf(k) =>
            /\ Len(data'.profiles) = Len(data.profiles)
            /\ \A i \in 1..Len(data.profiles) :
                 i # k => data'.profiles[i] = data.profiles[i]
            /\ IsSubmitted(data'.profiles[k], call.data["profile"], {})
            /\ ret'.status = "ok"
            /\ ret'.value = [id |-> call.data["profile"]["id"]] ]_vars

\* C5 witness: the first of three profiles was just updated and is still first.
C5_Witness ==
    /\ ret.op = "upsert_profile"
    /\ ret.status = "ok"
    /\ ret.log = << "Updated profile" >>
    /\ Len(data.profiles) = 3
    /\ ret.value = [id |-> data.profiles[1]["id"]]
    /\ data.profiles[1]["name"] = << "A", "l" >>

\* The possible values of last_modified.
IsoInstants == { IsoFormat(t) : t \in Instants }

\* C6: the profile a successful upsert_profile stores has last_modified set to
\* the time of the call, schema_version PROFILE_SCHEMA_VERSION, and modified_by
\* the name of the context's user when the user id resolves and None otherwise,
\* whatever the caller sent for these three fields.
C6_AuditStamped ==
    [][ (call.op = "upsert_profile" /\ ret'.status = "ok") =>
          \E k \in 1..Len(data'.profiles) :
            /\ data'.profiles[k]["id"] = ret'.value.id
            /\ data'.profiles[k]["last_modified"] \in IsoInstants
            /\ data'.profiles[k]["schema_version"] = PROFILE_SCHEMA_VERSION
            /\ data'.profiles[k]["modified_by"] =
                 IF call.user_id \in DOMAIN AuthUsers
                 THEN AuthUsers[call.user_id].name ELSE None ]_vars

\* C6 witness: a profile was just stored for a resolved user, next to one stored
\* without a user.
C6_Witness ==
    /\ ret.op = "upsert_profile"
    /\ ret.status = "ok"
    /\ \E k, j \in 1..Len(data.profiles) :
        /\ data.profiles[k]["id"] = ret.value.id
        /\ data.profiles[k]["modified_by"] = "Alice"
        /\ data.profiles[k]["schema_version"] = PROFILE_SCHEMA_VERSION
        /\ data.profiles[j]["modified_by"] = None

\* C7: a delete_profile with the id of the stored profile at position k removes
\* it, keeps the others in their order and the API key, and saves; with an id no
\* stored profile has it raises nothing, leaves the document as it is and does
\* not save.
C7_Delete ==
    [][ call.op = "delete_profile" =>
          LET profile_id == IF "profile_id" \in DOMAIN call.data
                            THEN call.data["profile_id"] ELSE None
              n == Len(data.profiles)
          IN  /\ ret'.status = "ok"
              /\ \A k \in 1..n :
                   data.profiles[k]["id"] = profile_id =>
                     /\ Len(data'.profiles) = n - 1
                     /\ \A i \in 1..(k - 1) : data'.profiles[i] = data.profiles[i]
                     /\ \A i \in (k + 1)..n : data'.profiles[i - 1] = data.profiles[i]
                     /\ data'.gemini_api_key = data.gemini_api_key
                     /\ ret'.saved
                     /\ stored' = << data' >>
              /\ profile_id \notin StoredIds => NothingWritten ]_vars

\* C7 witness: the first of three profiles was just deleted; the two that remain
\* are saved together with the API key.
C7_Witness ==
    /\ ret.op = "delete_profile"
    /\ ret.saved
    /\ ret.log = << "Deleted profile" >>
    /\ Len(data.profiles) = 2
    /\ uuids = 2
    /\ data.profiles[1]["id"] = UuidPool[1]
    /\ data.profiles[2]["id"] = UuidPool[2]
    /\ data.gemini_api_key # None
    /\ stored = << data >>

\* C8: set_gemini_key never fails; it stores the key it is given, None for the
\* empty string or no key, whatever the key starts with; it keeps the profile
\* list and always saves.
C8_SetKey ==
    [][ call.op = "set_gemini_key" =>
          /\ ret'.status = "ok"
          /\ data'.gemini_api_key =
               IF "api_key" \notin DOMAIN call.data \/ call.data["api_key"] = ""
               THEN None ELSE call.data["api_key"]
          /\ data'.profiles = data.profiles
          /\ ret'.saved
          /\ stored' = << data' >> ]_vars

\* C8 witness: a key without the Gemini prefix was just stored and saved, with a
\* warning, next to the profiles.
C8_Witness ==
    /\ ret.op = "set_gemini_key"
    /\ ret.saved
    /\ Len(ret.log) = 2
    /\ data.gemini_api_key = "not-a-gemini-key"
    /\ Len(data.profiles) >= 1
    /\ stored = << data >>

\* The upsert_profile request that check_profile_name's arguments stand for: the
\* name (the empty string when missing) and exclude_id as the id, when given.
C9_UpsertFor(c) ==
    ("name" :> Get(c.data, "name", EmptyName))
        @@ (IF "exclude_id" \in DOMAIN c.data
            THEN ("id" :> c.data["exclude_id"]) ELSE EmptyDict)

\* C9 as claimed: for every name, the empty one included, check_profile_name
\* answers available exactly when upsert_profile would accept the request.
C9_CheckAgreesWithUpsert ==
    [][ call.op = "check_profile_name" =>
          (ret'.value.available
             <=> UpsertError(data.profiles, C9_UpsertFor(call)) = None) ]_vars

\* C9 amended: for every non-empty name and every exclude_id, check_profile_name
\* answers available exactly when upsert_profile would accept that name under the
\* id exclude_id.
C9_CheckAgreesForNonEmptyNames ==
    [][ (call.op = "check_profile_name"
         /\ Get(call.data, "name", EmptyName) # EmptyName) =>
          (ret'.value.available
             <=> UpsertError(data.profiles, C9_UpsertFor(call)) = None) ]_vars

\* C9 witness: a name was just reported as taken, with two profiles stored.
C9_Witness ==
    /\ ret.op = "check_profile_name"
    /\ ret.value = [available |-> FALSE]
    /\ Len(data.profiles) = 2

\* C10: get_config and check_profile_name change neither the document nor the
\* storage and do not save; get_config returns the API key and the profile list
\* of the document as it is.
C10_ReadOnly ==
    [][ call.op \in {"get_config", "check_profile_name"} =>
          /\ NothingWritten
          /\ ret'.status = "ok"
          /\ call.op = "get_config" =>
               /\ ret'.value.gemini_api_key = data.gemini_api_key
               /\ ret'.value.profiles = data.profiles ]_vars

\* C10 witness: get_config just returned the key set and the three profiles
\* stored by earlier calls.
C10_Witness ==
    /\ ret.op = "get_config"
    /\ ret.value.gemini_api_key = "AIzaSyExample"
    /\ Len(ret.value.profiles) = 3
    /\ ret.value.profiles = data.profiles
    /\ ~ret.saved

(***************************************************************************)
(* The claims about overlapping handlers, checked under SpecAsync.         *)
(***************************************************************************)
\* The ids and the names of a profile list, in list order.
IdsOf(profiles) == [i \in 1..Len(profiles) |-> profiles[i]["id"]]

NamesOf(profiles) == [i \in 1..Len(profiles) |-> profiles[i]["name"]]

\* The handlers suspended at pc, as a set.
TasksAt(pc) == { t \in BagToSet(tasks) : t.pc = pc }

\* C11: when upsert_profile calls made with a user context overlap, each
\* suspended at its user lookup between the name-collision check and the
\* mutation of the list, no two stored profiles have names that are equal
\* ignoring case, in any reachable state.
C11_NamesUniqueInterleaved ==
    LET names == NamesOf(data.profiles)
    IN  \A i \in 1..Len(names) : \A j \in (i + 1)..Len(names) :
            ~EqualIgnoringCase(names[i], names[j])

\* The profile list of document doc has a profile with id x.
HasProfile(doc, x) == \E i \in 1..Len(doc.profiles) : doc.profiles[i]["id"] = x

\* Handler t, suspended at its save, returns in this step.
Returns(t) == t.pc = "save" /\ BagIn(t, tasks) /\ tasks' = Finish(tasks, t)

\* C12: when upsert_profile returns the id X and delete_profile was never
\* called with X, the in-memory document and the document last written both
\* have a profile with id X, whatever ran while the upsert was suspended at
\* its user lookup (a delete_profile for another id included).
C12_NoLostUpsert ==
    [][ \A t \in TasksAt("save") :
          (t.op = "upsert_profile" /\ Returns(t) /\ t.value \notin deleted)
          => /\ HasProfile(data', t.value)
             /\ stored' # << >>
             /\ HasProfile(stored'[1], t.value) ]_vars

\* C13: from the empty document, under any interleaving of the handlers at
\* their awaits and with ids chosen by callers, no two stored profiles have the
\* same id, and every stored profile has a non-empty id and a non-empty name.
C13_IdsUniqueInterleaved ==
    LET ids == IdsOf(data.profiles)
        names == NamesOf(data.profiles)
    IN  /\ \A i \in 1..Len(ids) : \A j \in (i + 1)..Len(ids) : ids[i] # ids[j]
        /\ \A i \in 1..Len(ids) : ids[i] # "" /\ ids[i] # None
        /\ \A i \in 1..Len(names) : names[i] # EmptyName

\* C13 witness: two upserts with the caller's id c1 overlapped at the user
\* lookup and both wait for their save; the document last written has a
\* profile with a generated id and not yet c1, and the in-memory document has
\* both (c1 once).
C13_Witness ==
    /\ CopiesIn(SavingTask("upsert_profile", "c1"), tasks) = 2
    /\ stored # << >>
    /\ HasProfile(stored[1], "uuid-1")
    /\ ~HasProfile(stored[1], "c1")
    /\ Len(data.profiles) = 2
    /\ HasProfile(data, "c1")
    /\ HasProfile(data, "uuid-1")

\* C14: whenever no handler is in flight and a save has completed, the document
\* last written equals the in-memory document, API key and profile list.
C14_Durable ==
    (tasks = EmptyBag /\ stored # << >>) =>
        /\ stored[1].gemini_api_key = data.gemini_api_key
        /\ stored[1].profiles = data.profiles

\* C14 witness: no handler is in flight; handlers overlapped before (two
\* profiles with one name are stored, and a delete ran), the key is set, and
\* the document last written is the in-memory document.
C14_Witness ==
    /\ tasks = EmptyBag
    /\ stored = << data >>
    /\ data.gemini_api_key = "AIzaSyExample"
    /\ deleted # {}
    /\ Len(data.profiles) = 2
    /\ data.profiles[1]["name"] = data.profiles[2]["name"]


====
